---- MODULE Spec2Model ----
(***************************************************************************)
(* Lexical statistics and cross-document comparison (src/src/analyze.py,   *)
(* class TextAnalyzer).  Every method of TextAnalyzer is a pure function   *)
(* of its arguments; each is an operator here, computed as the code        *)
(* computes it, and an action applies it to the inputs chosen by Init.     *)
(* The orchestrators analyze_all_texts (analyze.py) and generate_all_data  *)
(* (src/src/generate.py) are followed step by step from the listing of the *)
(* input directory on.                                                     *)
(*                                                                         *)
(* Numbers.  A Python int stays an integer.  A value that the code obtains *)
(* by true division (/) or by round() is a rational [num, den]; round(x,d) *)
(* is the nearest multiple of 10^-d, ties to even.  That is Python's       *)
(* round() of the float whenever the exact tie is a binary fraction, which *)
(* is the case for every quotient the inputs below produce except quotients*)
(* of the long input of InitDiversityLong, which are no ties.              *)
(* A raised exception is the value [exc |-> <name>].                       *)
(***************************************************************************)
EXTENDS Integers, Sequences, FiniteSets, TLC

VARIABLES
    tokens,     \* the token list handed to the per-document statistics
    tokens2,    \* the second token list of calculate_vocabulary_overlap
    n,          \* get_top_words' parameter n
    exclude_common, \* get_top_words' parameter exclude_common
    returned,   \* the calls that have returned (or raised)
    mtld,       \* what _calculate_mtld(tokens) returned
    ld,         \* what calculate_lexical_diversity(tokens) returned
    ov,         \* what calculate_vocabulary_overlap(tokens, tokens2) returned
    ovr,        \* what calculate_vocabulary_overlap(tokens2, tokens) returned
    top,        \* what get_top_words(tokens, n, exclude_common) returned
    orchestrator,   \* the function whose pairwise loop runs
    all_texts,  \* the dict all_texts: its items in insertion order
    pair_i,     \* the pairwise loop's index i of id1 in text_ids
    pair_j,     \* the index in text_ids of the inner loop's next id2
    pairwise_overlaps,  \* the dict the pairwise loop fills: its items
    plato_texts,    \* the dict plato_texts: its items in insertion order
    aristotle_texts,    \* the dict aristotle_texts, likewise
    ac,         \* what compare_author_vocabularies(plato_texts,
                \* aristotle_texts) returned
    ac2,        \* what the same call returned in another run of the program
    doc,        \* a processed text handed to the per-document statistics
    ss,         \* what calculate_sentence_stats(doc.sentences) returned
    ws,         \* what calculate_word_stats(doc.tokens_lower) returned
    scan,       \* the locals i, factors, start, token_types of a call of
                \* _calculate_mtld(tokens) inside its for loop
    pc,         \* the orchestrator's position
    txt_files,  \* the files of data/processed still to load: the stem and
                \* the preprocessed text of each
    results,    \* the dict of the individual analysis: its items
    network     \* what create_network_data returned

inputs == <<tokens, tokens2, n, exclude_common>>
pairwise == <<orchestrator, all_texts, pair_i, pair_j, pairwise_overlaps>>
authors == <<plato_texts, aristotle_texts, ac, ac2>>
document == <<doc, ss, ws>>
program == <<pc, txt_files, results, network>>
vars == <<tokens, tokens2, n, exclude_common, returned, mtld, ld, ov, ovr, top,
          pairwise, authors, document, scan, program>>

\* The value of a result no call has produced yet.
None == [none |-> TRUE]

----------------------------------------------------------------------------
(* Python values *)

ZeroDivisionError == [exc |-> "ZeroDivisionError"]

Raised(v) == "exc" \in DOMAIN v

Rat(a, b) == [num |-> a, den |-> b]

\* a / b
TrueDiv(a, b) == IF b = 0 THEN ZeroDivisionError ELSE Rat(a, b)

\* x = y, x <= y for rationals with positive denominators
RatEq(x, y) == x.num * y.den = y.num * x.den
RatLe(x, y) == x.num * y.den <= y.num * x.den

Pow10(d) == IF d = 2 THEN 100 ELSE 10000

\* The integer nearest to a / b (a >= 0, b > 0), a tie going to the even one.
RoundHalfEven(a, b) ==
    LET q == a \div b
        r == a % b
    IN  IF 2 * r < b THEN q
        ELSE IF 2 * r > b THEN q + 1
        ELSE IF q % 2 = 0 THEN q ELSE q + 1

\* round(x, d) for d in {2, 4}
Round(x, d) ==
    IF Raised(x) THEN x
    ELSE Rat(RoundHalfEven(x.num * Pow10(d), x.den), Pow10(d))

\* set(tokens)
ToSet(toks) == {toks[k] : k \in 1..Len(toks)}

----------------------------------------------------------------------------
(* TextAnalyzer._calculate_mtld *)

ThresholdNum == 72
ThresholdDen == 100
MinTokens == 50

\* One iteration of the for loop at index i (0-based) on state
\* st = [factors, start, token_types].
MtldBodyNoReset(toks, st, i) ==
    LET token_types == st.token_types \cup {toks[i + 1]}
        len == Cardinality(token_types)
        seg == i - st.start + 1
    IN  IF len * ThresholdDen < ThresholdNum * seg
        THEN [factors |-> st.factors + 1, start |-> i + 1,
              token_types |-> token_types]
        ELSE [factors |-> st.factors, start |-> st.start,
              token_types |-> token_types]

MtldBody(toks, st, i) ==
    LET token_types == st.token_types \cup {toks[i + 1]}
        len == Cardinality(token_types)
        seg == i - st.start + 1
    IN  \* ttr = len(token_types) / (i - start + 1);  if ttr < threshold
        IF len * ThresholdDen < ThresholdNum * seg
        THEN [factors |-> st.factors + 1, start |-> i + 1, token_types |-> {}]
        ELSE [factors |-> st.factors, start |-> st.start,
              token_types |-> token_types]

\* for i, token in enumerate(tokens): the body at i = lo, lo+1, ..., hi in
\* this order.  The range is halved only to keep the evaluation shallow; the
\* test on factors (a count, never negative) makes the first half's state a
\* value before the second half starts.
RECURSIVE MtldLoop(_, _, _, _)
MtldLoop(toks, st, lo, hi) ==
    IF lo > hi THEN st
    ELSE IF lo = hi THEN MtldBody(toks, st, lo)
    ELSE LET mid == (lo + hi) \div 2
             first == MtldLoop(toks, st, lo, mid)
         IN  IF first.factors >= 0
             THEN MtldLoop(toks, first, mid + 1, hi)
             ELSE first

MtldReturnUnguarded(len, factors) == TrueDiv(len, factors)

\* if factors == 0: return len(tokens);  return len(tokens) / factors
MtldReturn(len, factors) ==
    IF factors = 0 THEN Rat(len, 1) ELSE TrueDiv(len, factors)

MtldNoMinimum(toks) ==
    MtldReturn(Len(toks),
               MtldLoop(toks, [factors |-> 0, start |-> 0, token_types |-> {}],
                        0, Len(toks) - 1).factors)

\* factors = 0; start = 0; token_types = set(), before the iteration at i = 0
ScanStart == [i |-> 0, factors |-> 0, start |-> 0, token_types |-> {}]

ScanIterationStartKept(toks, sc) ==
    LET st == MtldBody(toks, sc, sc.i)
    IN  [i |-> sc.i + 1, factors |-> st.factors, start |-> sc.start,
         token_types |-> st.token_types]

\* The locals after the iteration at index sc.i, the next index in i.
ScanIteration(toks, sc) ==
    LET st == MtldBody(toks, sc, sc.i)
    IN  [i |-> sc.i + 1, factors |-> st.factors, start |-> st.start,
         token_types |-> st.token_types]

_calculate_mtld(toks) ==
    IF Len(toks) < MinTokens THEN Rat(0, 1)
    ELSE MtldReturn(Len(toks),
                    MtldLoop(toks,
                             [factors |-> 0, start |-> 0, token_types |-> {}],
                             0, Len(toks) - 1).factors)

----------------------------------------------------------------------------
(* TextAnalyzer.calculate_lexical_diversity *)

\* The record of the final return statement; a division that raised
\* propagates instead.
DiversityRecord(ttr, unique_tokens, total_tokens, m) ==
    IF Raised(ttr) THEN ttr
    ELSE [ttr |-> Round(ttr, 4), unique_words |-> unique_tokens,
          total_words |-> total_tokens, mtld |-> Round(m, 2)]

LexicalDiversityNoEmptyCase(toks) ==
    DiversityRecord(TrueDiv(Cardinality(ToSet(toks)), Len(toks)),
                    Cardinality(ToSet(toks)), Len(toks), _calculate_mtld(toks))

LexicalDiversityCountsTokens(toks) ==
    IF Len(toks) = 0
    THEN [ttr |-> Rat(0, 1), unique_words |-> 0, total_words |-> 0]
    ELSE DiversityRecord(TrueDiv(Len(toks), Len(toks)),
                         Len(toks), Len(toks), _calculate_mtld(toks))

calculate_lexical_diversity(toks) ==
    LET total_tokens == Len(toks)
        unique_tokens == Cardinality(ToSet(toks))
    IN  IF total_tokens = 0
        THEN [ttr |-> Rat(0, 1), unique_words |-> 0, total_words |-> 0]
        ELSE DiversityRecord(TrueDiv(unique_tokens, total_tokens),
                             unique_tokens, total_tokens, _calculate_mtld(toks))

----------------------------------------------------------------------------
(* TextAnalyzer.calculate_vocabulary_overlap *)

\* The k-th numbered word, three digits wide: t001, t002, ...
Numbered(k) ==
    IF k < 10 THEN "t00" \o ToString(k)
    ELSE IF k < 100 THEN "t0" \o ToString(k)
    ELSE "t" \o ToString(k)

MaxNumbered == 170

\* Python's order on str (sorted() of a list of str), for the words of the
\* lexicon: the lexicon lists them in that order (a digit sorts before a
\* letter, so every t<digits> is between "good" and "truth").
Lexicon ==
    <<"form", "good">> \o [k \in 1..MaxNumbered |-> Numbered(k)]
        \o <<"truth", "virtue">>

RankTable ==
    [w \in {Lexicon[k] : k \in 1..Len(Lexicon)} |->
        CHOOSE k \in 1..Len(Lexicon) : Lexicon[k] = w]

Rank(w) == RankTable[w]

StrLt(a, b) == Rank(a) < Rank(b)

\* sorted(list(S)) for a set S of str: the element at place i is the one
\* with i - 1 smaller elements in S.
Sorted(S) ==
    [i \in 1..Cardinality(S) |->
        CHOOSE x \in S : Cardinality({y \in S : StrLt(y, x)}) = i - 1]

SharedListCap == 100

\* xs[:k]
Take(xs, k) == SubSeq(xs, 1, IF k < Len(xs) THEN k ELSE Len(xs))

\* len(shared) / len(vocab1 | vocab2) if (vocab1 | vocab2) else 0
JaccardOverSum(shared, vocab1, vocab2) ==
    IF (vocab1 \cup vocab2) # {}
    THEN TrueDiv(Cardinality(shared),
                 Cardinality(vocab1) + Cardinality(vocab2))
    ELSE Rat(0, 1)

Jaccard(shared, vocab1, vocab2) ==
    IF (vocab1 \cup vocab2) # {}
    THEN TrueDiv(Cardinality(shared), Cardinality(vocab1 \cup vocab2))
    ELSE Rat(0, 1)

\* x * 100
Times100(x) == IF Raised(x) THEN x ELSE Rat(x.num * 100, x.den)

\* round(len(shared) / len(vocab) * 100, 2) if vocab else 0
OverlapPercentageUnguarded(shared, vocab) ==
    Round(Times100(TrueDiv(Cardinality(shared), Cardinality(vocab))), 2)

OverlapPercentage(shared, vocab) ==
    IF vocab # {}
    THEN Round(Times100(TrueDiv(Cardinality(shared), Cardinality(vocab))), 2)
    ELSE Rat(0, 1)

OverlapRecordCountsList(shared, unique1, unique2, jaccard, first, second) ==
    IF Raised(jaccard) THEN jaccard
    ELSE IF Raised(first) THEN first
    ELSE IF Raised(second) THEN second
    ELSE [shared_words |-> Len(Take(Sorted(shared), SharedListCap)),
          unique_to_first |-> Cardinality(unique1),
          unique_to_second |-> Cardinality(unique2),
          jaccard_similarity |-> Round(jaccard, 4),
          overlap_percentage_first |-> first,
          overlap_percentage_second |-> second,
          shared_words_list |-> Take(Sorted(shared), SharedListCap)]

\* The returned dict; an exception raised while its values are computed
\* propagates instead.
OverlapRecord(shared, unique1, unique2, jaccard, first, second) ==
    IF Raised(jaccard) THEN jaccard
    ELSE IF Raised(first) THEN first
    ELSE IF Raised(second) THEN second
    ELSE [shared_words |-> Cardinality(shared),
          unique_to_first |-> Cardinality(unique1),
          unique_to_second |-> Cardinality(unique2),
          jaccard_similarity |-> Round(jaccard, 4),
          overlap_percentage_first |-> first,
          overlap_percentage_second |-> second,
          shared_words_list |-> Take(Sorted(shared), SharedListCap)]

VocabularyOverlapSecondOverFirst(tokens1, toks2) ==
    LET vocab1 == ToSet(tokens1)
        vocab2 == ToSet(toks2)
        shared == vocab1 \cap vocab2
    IN  OverlapRecord(shared, vocab1 \ vocab2, vocab2 \ vocab1,
                      Jaccard(shared, vocab1, vocab2),
                      OverlapPercentage(shared, vocab1),
                      OverlapPercentage(shared, vocab1))

calculate_vocabulary_overlap(tokens1, toks2) ==
    LET vocab1 == ToSet(tokens1)
        vocab2 == ToSet(toks2)
        shared == vocab1 \cap vocab2
        unique1 == vocab1 \ vocab2
        unique2 == vocab2 \ vocab1
        jaccard == Jaccard(shared, vocab1, vocab2)
    IN  OverlapRecord(shared, unique1, unique2, jaccard,
                      OverlapPercentage(shared, vocab1),
                      OverlapPercentage(shared, vocab2))

----------------------------------------------------------------------------
(* TextAnalyzer.get_top_words *)

common == {"said", "one", "upon", "like", "would", "also", "may", "must",
           "every", "much"}

\* [t for t in tokens if t not in common]
NotCommon(t) == t \notin common
FilterCommon(toks) == SelectSeq(toks, NotCommon)

\* A Counter is the sequence of its (key, count) items in insertion order,
\* which is the order in which the keys were first counted.
Keys(counter) == {counter[k][1] : k \in 1..Len(counter)}

\* counter[t] += 1
CountOne(counter, t) ==
    IF t \in Keys(counter)
    THEN [k \in 1..Len(counter) |->
            IF counter[k][1] = t THEN <<t, counter[k][2] + 1>> ELSE counter[k]]
    ELSE Append(counter, <<t, 1>>)

\* Counter(tokens): every token counted, toks[lo], ..., toks[hi] in this
\* order.  The range is halved only to keep the evaluation shallow; the test
\* on the length makes the first half's counter a value before the second
\* half starts.
RECURSIVE CountRange(_, _, _, _)
CountRange(toks, counter, lo, hi) ==
    IF lo > hi THEN counter
    ELSE IF lo = hi THEN CountOne(counter, toks[lo])
    ELSE LET mid == (lo + hi) \div 2
             first == CountRange(toks, counter, lo, mid)
         IN  IF Len(first) >= 0
             THEN CountRange(toks, first, mid + 1, hi)
             ELSE first

Counter(toks) == CountRange(toks, <<>>, 1, Len(toks))

\* item inserted into a list already in descending order of count: after
\* every item whose count is at least its own, so equal counts keep the
\* order in which they arrive (sorted(..., reverse=True) is stable).
InsertByCountTiesFirst(sorted, item) ==
    LET before == Cardinality({k \in 1..Len(sorted) : sorted[k][2] > item[2]})
    IN  SubSeq(sorted, 1, before) \o <<item>>
            \o SubSeq(sorted, before + 1, Len(sorted))

InsertByCount(sorted, item) ==
    LET before == Cardinality({k \in 1..Len(sorted) : sorted[k][2] >= item[2]})
    IN  SubSeq(sorted, 1, before) \o <<item>>
            \o SubSeq(sorted, before + 1, Len(sorted))

\* sorted(items, key=itemgetter(1), reverse=True): items[lo], ..., items[hi]
\* inserted in this order (the range is halved as in CountRange).
RECURSIVE SortRange(_, _, _, _)
SortRange(items, sorted, lo, hi) ==
    IF lo > hi THEN sorted
    ELSE IF lo = hi THEN InsertByCount(sorted, items[lo])
    ELSE LET mid == (lo + hi) \div 2
             first == SortRange(items, sorted, lo, mid)
         IN  IF Len(first) >= 0
             THEN SortRange(items, first, mid + 1, hi)
             ELSE first

SortedByCount(items) == SortRange(items, <<>>, 1, Len(items))

\* Counter.most_common(k), k >= 0: heapq.nlargest(k, items, key=count),
\* which returns what sorted(items, key=count, reverse=True)[:k] returns.
most_common(counter, k) == Take(SortedByCount(counter), k)

GetTopWordsNoFilter(toks, k, exclude) ==
    most_common(Counter(toks), k)

get_top_words(toks, k, exclude) ==
    most_common(Counter(IF exclude THEN FilterCommon(toks) ELSE toks), k)

----------------------------------------------------------------------------
(* Arguments that may be None *)

\* The statistics take what the caller hands them: a list, or None.
PyNone == [py_none |-> TRUE]
PyList(xs) == [list |-> xs]
IsNone(obj) == "py_none" \in DOMAIN obj

TypeError == [exc |-> "TypeError"]

\* `if not obj`: None and the empty list are false
Not(obj) == IsNone(obj) \/ obj.list = <<>>

\* {}
EmptyDict == <<>>

\* calculate_lexical_diversity(obj): len(None) raises TypeError
LexicalDiversityOf(obj) ==
    IF IsNone(obj) THEN TypeError ELSE calculate_lexical_diversity(obj.list)

\* get_top_words(obj, k, exclude): with exclude_common the comprehension
\* iterates over tokens, and iterating over None raises TypeError; without
\* it Counter(None) is the empty Counter.
TopWordsOf(obj, k, exclude) ==
    IF IsNone(obj)
    THEN IF exclude THEN TypeError ELSE most_common(<<>>, k)
    ELSE get_top_words(obj.list, k, exclude)

----------------------------------------------------------------------------
(* TextAnalyzer.calculate_word_stats and calculate_sentence_stats *)

\* sum(xs) of a list of int
RECURSIVE SumOfPrefix(_, _)
SumOfPrefix(xs, k) == IF k = 0 THEN 0 ELSE SumOfPrefix(xs, k - 1) + xs[k]

Sum(xs) == SumOfPrefix(xs, Len(xs))

\* sorted(xs) of a list of int: the element at place i is the one with
\* i - 1 elements before it, equal elements in their order in xs.
SortedInts(xs) ==
    [i \in 1..Len(xs) |->
        xs[CHOOSE k \in 1..Len(xs) :
              Cardinality({j \in 1..Len(xs) :
                              xs[j] < xs[k] \/ (xs[j] = xs[k] /\ j < k)})
                  = i - 1]]

\* np.mean(xs) of a non-empty list of int
Mean(xs) == Rat(Sum(xs), Len(xs))

\* np.median(xs) of a non-empty list of int: the middle element of the
\* sorted list, or the mean of the two middle ones
Median(xs) ==
    LET sorted == SortedInts(xs)
        half == Len(xs) \div 2
    IN  IF Len(xs) % 2 = 1 THEN Rat(sorted[half + 1], 1)
        ELSE Rat(sorted[half] + sorted[half + 1], 2)

Min(xs) == CHOOSE x \in ToSet(xs) : \A y \in ToSet(xs) : x <= y
Max(xs) == CHOOSE x \in ToSet(xs) : \A y \in ToSet(xs) : x >= y

\* round(np.std(xs), 2) of a non-empty list of int >= 0.  np.std is the
\* population standard deviation sqrt(d) / n with d = n * sum(x^2) -
\* sum(x)^2; the result is k / 100 for the integer k nearest to
\* 100 * sqrt(d) / n, the even one of two equally near.
RoundedStd(xs) ==
    LET len == Len(xs)
        d == len * Sum([k \in 1..len |-> xs[k] * xs[k]]) - Sum(xs) * Sum(xs)
        Near(k) ==
            /\ k >= 0
            /\ (2 * k - 1 > 0) =>
                  (2 * k - 1) * (2 * k - 1) * len * len <= 40000 * d
            /\ 40000 * d <= (2 * k + 1) * (2 * k + 1) * len * len
    IN  Rat(CHOOSE k \in 0..(100 * Max(xs) + 1) :
                /\ Near(k)
                /\ Near(k + 1) => k % 2 = 0
                /\ Near(k - 1) => k % 2 = 0,
            100)

\* A sentence is the sequence of its characters.  len(s.split()): the
\* number of maximal runs of characters other than white space.
SplitLength(s) ==
    Cardinality({k \in 1..Len(s) :
                    s[k] # " " /\ (k = 1 \/ s[k - 1] = " ")})

calculate_sentence_stats(sentences) ==
    IF Not(sentences) THEN EmptyDict
    ELSE LET sentence_lengths ==
                 [k \in 1..Len(sentences.list) |->
                     SplitLength(sentences.list[k])]
         IN  [sentence_count |-> Len(sentences.list),
              avg_sentence_length |-> Round(Mean(sentence_lengths), 2),
              median_sentence_length |-> Round(Median(sentence_lengths), 2),
              min_sentence_length |-> Min(sentence_lengths),
              max_sentence_length |-> Max(sentence_lengths),
              std_sentence_length |-> RoundedStd(sentence_lengths)]

IsLongWordFromSix(length) == length >= 6

\* w > 6
IsLongWord(length) == length > 6

\* sum(1 for w in word_lengths if w > 6)
LongWords(word_lengths) ==
    Cardinality({k \in 1..Len(word_lengths) : IsLongWord(word_lengths[k])})

calculate_word_stats(toks) ==
    IF Not(toks) THEN EmptyDict
    ELSE LET word_lengths == [k \in 1..Len(toks.list) |-> Len(toks.list[k])]
         IN  [avg_word_length |-> Round(Mean(word_lengths), 2),
              median_word_length |-> Round(Median(word_lengths), 2),
              long_words |-> LongWords(word_lengths),
              long_word_ratio |->
                  Round(TrueDiv(LongWords(word_lengths), Len(toks.list)), 4)]

----------------------------------------------------------------------------
(* TextAnalyzer.compare_author_vocabularies *)

\* list(texts.values()) of a dict of texts (its items in insertion order)
Values(texts) == [k \in 1..Len(texts) |-> texts[k][2]]

RECURSIVE ExtendAllBackwards(_, _)
ExtendAllBackwards(texts, k) ==
    IF k = 0 THEN <<>>
    ELSE Values(texts)[k].tokens_lemmatized \o ExtendAllBackwards(texts, k - 1)

\* for text_data in texts.values(): all.extend(text_data['tokens_lemmatized'])
RECURSIVE ExtendAll(_, _)
ExtendAll(texts, k) ==
    IF k = 0 THEN <<>>
    ELSE ExtendAll(texts, k - 1) \o Values(texts)[k].tokens_lemmatized

AuthorTokens(texts) == ExtendAll(texts, Len(texts))

\* counter[word]: 0 for a word never counted
CounterGet(counter, word) ==
    IF word \in Keys(counter)
    THEN counter[CHOOSE k \in 1..Len(counter) : counter[k][1] = word][2]
    ELSE 0

\* The orders in which iterating over a set of str can yield its elements.
\* The order follows the hashes of the strings, which change from one run
\* of the interpreter to the next: any order is possible.  All orders are
\* listed for a set of at most MaxPermuted elements, two for a larger one.
MaxPermuted == 3

Reverse(xs) == [k \in 1..Len(xs) |-> xs[Len(xs) + 1 - k]]

IterationOrders(S) ==
    IF Cardinality(S) <= MaxPermuted
    THEN {f \in [1..Cardinality(S) -> S] :
            \A a, b \in 1..Cardinality(S) : f[a] = f[b] => a = b}
    ELSE {Sorted(S), Reverse(Sorted(S))}

\* shared_freq.items(): one item per word of shared, in iteration order
SharedFreq(order, plato_freq, aristotle_freq) ==
    [k \in 1..Len(order) |->
        <<order[k],
          [plato_count |-> CounterGet(plato_freq, order[k]),
           aristotle_count |-> CounterGet(aristotle_freq, order[k]),
           total |-> CounterGet(plato_freq, order[k])
                        + CounterGet(aristotle_freq, order[k])]>>]

\* item inserted into a list already in descending order of total, after
\* every item whose total is at least its own (sorted() is stable).
InsertByTotalAscending(sorted, item) ==
    LET before == Cardinality({k \in 1..Len(sorted) :
                                  sorted[k][2].total <= item[2].total})
    IN  SubSeq(sorted, 1, before) \o <<item>>
            \o SubSeq(sorted, before + 1, Len(sorted))

InsertByTotal(sorted, item) ==
    LET before == Cardinality({k \in 1..Len(sorted) :
                                  sorted[k][2].total >= item[2].total})
    IN  SubSeq(sorted, 1, before) \o <<item>>
            \o SubSeq(sorted, before + 1, Len(sorted))

\* sorted(items, key=lambda x: x[1]['total'], reverse=True)
RECURSIVE SortByTotalRange(_, _, _, _)
SortByTotalRange(items, sorted, lo, hi) ==
    IF lo > hi THEN sorted
    ELSE IF lo = hi THEN InsertByTotal(sorted, items[lo])
    ELSE LET mid == (lo + hi) \div 2
             first == SortByTotalRange(items, sorted, lo, mid)
         IN  IF Len(first) >= 0
             THEN SortByTotalRange(items, first, mid + 1, hi)
             ELSE first

SortedByTotal(items) == SortByTotalRange(items, <<>>, 1, Len(items))

TopSharedKept == 100
TopSharedReported == 50
TopUniqueCap == 30

\* [{'word': ..., 'plato_count': ..., 'aristotle_count': ...}
\*  for word, data in top_shared[:50]]
TopSharedWords(top_shared) ==
    LET reported == Take(top_shared, TopSharedReported)
    IN  [k \in 1..Len(reported) |->
            [word |-> reported[k][1],
             plato_count |-> reported[k][2].plato_count,
             aristotle_count |-> reported[k][2].aristotle_count]]

AuthorPercentageOfOne(shared, vocab) ==
    Round(TrueDiv(Cardinality(shared), Cardinality(vocab)), 2)

\* round(len(shared) / len(vocab) * 100, 2), with no test of vocab
AuthorPercentage(shared, vocab) ==
    Round(Times100(TrueDiv(Cardinality(shared), Cardinality(vocab))), 2)

\* Counter([t for t in toks if t in unique]).most_common(30)
TopUnique(toks, unique) ==
    most_common(Counter(SelectSeq(toks, LAMBDA t : t \in unique)),
                TopUniqueCap)

\* The returned dict, from the values v of the locals and of the expressions
\* in it; they are computed in the order written, and the first exception
\* raised propagates instead.
AuthorRecord(v) ==
    IF Raised(v.overlap_percentage) THEN v.overlap_percentage
    ELSE IF Raised(v.aristotle_uses_plato) THEN v.aristotle_uses_plato
    ELSE [plato_vocabulary_size |-> Cardinality(v.plato_vocab),
          aristotle_vocabulary_size |-> Cardinality(v.aristotle_vocab),
          shared_vocabulary |-> Cardinality(v.shared),
          plato_unique |-> Cardinality(v.plato_vocab \ v.aristotle_vocab),
          aristotle_unique |-> Cardinality(v.aristotle_vocab \ v.plato_vocab),
          overlap_percentage |-> v.overlap_percentage,
          aristotle_uses_plato |-> v.aristotle_uses_plato,
          top_shared_words |-> TopSharedWords(v.top_shared),
          top_plato_unique |-> v.top_plato_unique,
          top_aristotle_unique |-> v.top_aristotle_unique]

\* order: the order in which `for word in shared` yields the shared words
compare_author_vocabularies(platos, aristotles, order) ==
    LET plato_tokens == AuthorTokens(platos)
        aristotle_tokens == AuthorTokens(aristotles)
        plato_vocab == ToSet(plato_tokens)
        aristotle_vocab == ToSet(aristotle_tokens)
        shared == plato_vocab \cap aristotle_vocab
        plato_unique == plato_vocab \ aristotle_vocab
        aristotle_unique == aristotle_vocab \ plato_vocab
        plato_freq == Counter(plato_tokens)
        aristotle_freq == Counter(aristotle_tokens)
        shared_freq == SharedFreq(order, plato_freq, aristotle_freq)
        top_shared == Take(SortedByTotal(shared_freq), TopSharedKept)
    IN  AuthorRecord(
            [plato_vocab |-> plato_vocab,
             aristotle_vocab |-> aristotle_vocab,
             shared |-> shared,
             overlap_percentage |->
                 AuthorPercentage(shared, plato_vocab \cup aristotle_vocab),
             aristotle_uses_plato |-> AuthorPercentage(shared, plato_vocab),
             top_shared |-> top_shared,
             top_plato_unique |-> TopUnique(plato_tokens, plato_unique),
             top_aristotle_unique |->
                 TopUnique(aristotle_tokens, aristotle_unique)])

\* shared, as compare_author_vocabularies computes it
SharedVocabulary(platos, aristotles) ==
    ToSet(AuthorTokens(platos)) \cap ToSet(AuthorTokens(aristotles))

----------------------------------------------------------------------------
(* analyze_all_texts and run_all_analyses: the pairwise comparisons *)

\* A dict is the sequence of its (key, value) items in insertion order.
DictKeys(dict) == {dict[k][1] : k \in 1..Len(dict)}

\* dict[key] = value: a key already in the dict keeps its place and gets the
\* new value.
DictSet(dict, key, value) ==
    IF key \in DictKeys(dict)
    THEN [k \in 1..Len(dict) |->
            IF dict[k][1] = key THEN <<key, value>> ELSE dict[k]]
    ELSE Append(dict, <<key, value>>)

\* An item of all_texts: the identifier and the processed text.
Text(text_id, toks) == <<text_id, [tokens_lemmatized |-> toks]>>

\* text_ids = list(all_texts.keys())
text_ids == [k \in 1..Len(all_texts) |-> all_texts[k][1]]

\* all_texts[text_id]
TextOf(text_id) ==
    all_texts[CHOOSE k \in 1..Len(all_texts) : all_texts[k][1] = text_id][2]

\* A text identifier, and every str built from or searched in one, is the
\* sequence of its characters.
VsSeparator == <<" ", "v", "s", " ">>
BarSeparator == <<"|", "|", "|">>

\* f"{id1} vs {id2}" in analyze_all_texts, f"{id1}|||{id2}" in
\* run_all_analyses
PairKey(id1, id2) ==
    IF orchestrator = "analyze_all_texts"
    THEN id1 \o VsSeparator \o id2
    ELSE id1 \o BarSeparator \o id2

----------------------------------------------------------------------------
(* analyze_all_texts and generate.py: loading, grouping, individual        *)
(* analysis, network                                                       *)

Plato == <<"P", "l", "a", "t", "o">>
Aristotle == <<"A", "r", "i", "s", "t", "o", "t", "l", "e">>
Artistotle == <<"A", "r", "t", "i", "s", "t", "o", "t", "l", "e">>

\* sub in s
Contains(s, sub) ==
    \E k \in 1..(Len(s) - Len(sub) + 1) : SubSeq(s, k, k + Len(sub) - 1) = sub

\* The dict the loading loop puts a text in, besides all_texts:
\*   if 'Plato' in text_id: plato_texts
\*   elif 'Aristotle' in text_id or 'Artistotle' in text_id: aristotle_texts
AuthorGroup(text_id) ==
    IF Contains(text_id, Plato) THEN "plato_texts"
    ELSE IF Contains(text_id, Aristotle) \/ Contains(text_id, Artistotle)
    THEN "aristotle_texts"
    ELSE "none"

\* What preprocess_for_analysis returns, as far as the orchestrators read it.
Processed(sentences, tokens_lower, tokens_lemmatized) ==
    [sentences |-> sentences,
     tokens_lower |-> tokens_lower,
     tokens_lemmatized |-> tokens_lemmatized,
     sentence_count |-> Len(sentences),
     token_count |-> Len(tokens_lower),
     vocabulary_size |-> Cardinality(ToSet(tokens_lower))]

\* get_top_words' n: 50 in analyze_all_texts, 100 in run_all_analyses
TopWordsN == IF orchestrator = "analyze_all_texts" THEN 50 ELSE 100

\* results[text_id] of analyze_all_texts, text_stats[text_id] of
\* run_all_analyses
IndividualRecord(data) ==
    IF orchestrator = "analyze_all_texts"
    THEN [basic_stats |->
              [sentence_count |-> data.sentence_count,
               word_count |-> data.token_count,
               vocabulary_size |-> data.vocabulary_size],
          lexical_diversity |-> calculate_lexical_diversity(data.tokens_lower),
          sentence_stats |-> calculate_sentence_stats(PyList(data.sentences)),
          word_stats |-> calculate_word_stats(PyList(data.tokens_lower)),
          top_words |-> get_top_words(data.tokens_lemmatized, TopWordsN, TRUE)]
    ELSE [sentence_count |-> data.sentence_count,
          word_count |-> data.token_count,
          vocabulary_size |-> data.vocabulary_size,
          lexical_diversity |-> calculate_lexical_diversity(data.tokens_lower),
          sentence_stats |-> calculate_sentence_stats(PyList(data.sentences)),
          word_stats |-> calculate_word_stats(PyList(data.tokens_lower)),
          top_words |-> get_top_words(data.tokens_lemmatized, TopWordsN, TRUE)]

\* for text_id, data in all_texts.items(): results[text_id] = {...}
IndividualResults(texts) ==
    [k \in 1..Len(texts) |-> <<texts[k][1], IndividualRecord(texts[k][2])>>]

\* The 1-based places at which sep occurs in s.
Occurs(s, sep) ==
    {k \in 1..(Len(s) - Len(sep) + 1) : SubSeq(s, k, k + Len(sep) - 1) = sep}

\* s.split(sep): the pieces between the occurrences of sep, found from the
\* left without overlap
RECURSIVE Split(_, _)
Split(s, sep) ==
    IF Occurs(s, sep) = {} THEN <<s>>
    ELSE LET k == CHOOSE x \in Occurs(s, sep) : \A y \in Occurs(s, sep) : x <= y
         IN  <<SubSeq(s, 1, k - 1)>>
                 \o Split(SubSeq(s, k + Len(sep), Len(s)), sep)

ValueError == [exc |-> "ValueError"]

\* nodes: for text_id in all_texts.keys():
\*   author = "Plato" if "Plato" in text_id else "Aristotle"
Nodes(texts) ==
    [k \in 1..Len(texts) |->
        [id |-> texts[k][1],
         author |-> IF Contains(texts[k][1], Plato) THEN Plato ELSE Aristotle,
         label |-> texts[k][1]]]

\* overlap_data['jaccard_similarity'] > 0.05
Significant(overlap_data) ==
    100 * overlap_data.jaccard_similarity.num
        > 5 * overlap_data.jaccard_similarity.den

\* id1, id2 = pair_key.split('|||'): the unpacking raises ValueError unless
\* the key has exactly two pieces.
Unpacks(pair_key) == Len(Split(pair_key, BarSeparator)) = 2

\* The links after the first k items of pairwise_comparisons, each of which
\* unpacks.
RECURSIVE Links(_, _)
Links(comparisons, k) ==
    IF k = 0 THEN <<>>
    ELSE LET before == Links(comparisons, k - 1)
             pieces == Split(comparisons[k][1], BarSeparator)
             overlap_data == comparisons[k][2]
         IN  IF Significant(overlap_data)
             THEN Append(before,
                         [source |-> pieces[1],
                          target |-> pieces[2],
                          weight |-> overlap_data.jaccard_similarity,
                          shared_words |-> overlap_data.shared_words])
             ELSE before

\* The first key that does not unpack ends the call with ValueError.
create_network_data(texts, comparisons) ==
    IF \E k \in 1..Len(comparisons) : ~Unpacks(comparisons[k][1])
    THEN ValueError
    ELSE [nodes |-> Nodes(texts),
          links |-> Links(comparisons, Len(comparisons))]

----------------------------------------------------------------------------
(* Inputs *)

MaxShort == 4      \* short lists: every list of at most MaxShort tokens
MaxExtra == 3      \* longer lists: MinTokens - 1 .. MinTokens + MaxExtra tokens
MaxPeriod == 2     \* the repeated part of a longer list cycles 1..MaxPeriod tokens
MaxRun == 4        \* length of the repeated part, unless it runs to the end
LongLen == 20001   \* length of the one long list of InitDiversityLong
MaxOverlapLen == 3 \* lists compared for overlap have at most this many tokens
MaxTopLen == 5     \* lists ranked by get_top_words have at most this many tokens
MaxN == 3          \* get_top_words is asked for 0..MaxN words

ShortVocabulary == {"the", "cat", "sat"}
OverlapVocabulary == {"form", "good", "truth"}
TopVocabulary == {"b", "a", "c", "said"}

RECURSIVE SeqsUpTo(_, _)
SeqsUpTo(S, k) ==
    IF k = 0 THEN {<<>>}
    ELSE LET shorter == SeqsUpTo(S, k - 1)
         IN  shorter \cup {Append(s, x) : s \in shorter, x \in S}

Example == <<"the", "cat", "sat", "on", "the", "mat">>
ExampleFirst == <<"good", "truth", "form">>
ExampleSecond == <<"truth", "form", "virtue">>

\* The k-th of an unbounded supply of distinct tokens.
Fresh(k) == "w" \o ToString(k)

\* len tokens: p distinct ones, then c tokens cycling through the first
\* `period` of them, then distinct ones again.
Patterned(len, p, period, c) ==
    [j \in 1..len |->
        IF j <= p THEN Fresh(j)
        ELSE IF j <= p + c THEN Fresh(((j - p - 1) % period) + 1)
        ELSE Fresh(j)]

PatternedInputs ==
    UNION {{Patterned(len, p, period, c) :
                p \in 0..len, period \in 1..MaxPeriod,
                c \in (0..MaxRun) \cup {len}} :
           len \in (MinTokens - 1)..(MinTokens + MaxExtra)}

ShortInputs == SeqsUpTo(ShortVocabulary, MaxShort) \cup {Example}

DiversityInputs == ShortInputs \cup PatternedInputs

\* Nearly all tokens distinct: one token twice, then LongLen - 2 others.
LongInput == Patterned(LongLen, 0, 1, 2)

OverlapInputs == SeqsUpTo(OverlapVocabulary, MaxOverlapLen)

\* The numbered words lo..hi: each once in ascending order, then every
\* third of them again, then every second of them again.
WideTokens(lo, hi) ==
    LET numbers == [k \in 1..(hi - lo + 1) |-> lo + k - 1]
        thirds == SelectSeq(numbers, LAMBDA k : k % 3 = 0)
        seconds == SelectSeq(numbers, LAMBDA k : k % 2 = 0)
        all == numbers \o thirds \o seconds
    IN  [k \in 1..Len(all) |-> Numbered(all[k])]

\* Two lists with `shared` words in common ("virtue", the greatest, and
\* numbered words) and words of their own; the first list runs backwards.
WideOverlapFirst(shared) ==
    Reverse(WideTokens(1, shared + 1)) \o <<"virtue">>

WideOverlapSecond(shared) ==
    <<"virtue", "form">> \o WideTokens(3, shared + 4)

\* Sizes just under, at and just over the cap of shared_words_list.
WideOverlapInputs ==
    {<<WideOverlapFirst(shared), WideOverlapSecond(shared)>> :
        shared \in {SharedListCap - 1, SharedListCap, SharedListCap + 1}}

TopInputs == SeqsUpTo(TopVocabulary, MaxTopLen)

MaxPlatoLen == 3      \* Plato's short corpora have at most this many tokens
MaxAristotleLen == 2  \* Aristotle's short corpora, likewise

AuthorVocabulary == {"form", "good", "truth"}

\* Ways to cut a token list into the texts of one author: one text, two
\* texts cut at any place (an empty text included), one text per token (no
\* text at all for the empty list).
Splits(toks) ==
    {<<toks>>}
        \cup {<<SubSeq(toks, 1, c), SubSeq(toks, c + 1, Len(toks))>> :
                 c \in 0..Len(toks)}
        \cup {[k \in 1..Len(toks) |-> <<toks[k]>>]}

\* The dict of an author's texts: <author>_1, <author>_2, ... in this order.
AuthorTexts(author, split) ==
    [k \in 1..Len(split) |-> Text(author \o "_" \o ToString(k), split[k])]

\* Two corpora with `shared` words in common and `unique` words of their
\* own each, in two texts each; Aristotle's tokens run backwards.
WidePlato(shared, unique) ==
    LET toks == WideTokens(1, unique + shared)
    IN  AuthorTexts("Plato", <<SubSeq(toks, 1, shared),
                               SubSeq(toks, shared + 1, Len(toks))>>)

WideAristotle(shared, unique) ==
    LET toks == Reverse(WideTokens(unique + 1, unique + shared + unique))
    IN  AuthorTexts("Aristotle", <<SubSeq(toks, 1, unique),
                                   SubSeq(toks, unique + 1, Len(toks))>>)

\* Sizes at and just over the caps of the three rankings.
WideShapes ==
    {TopSharedReported, TopSharedReported + 1, TopSharedKept + 1}
        \X {TopUniqueCap, TopUniqueCap + 1}

PlatoInputs ==
    {AuthorTexts("Plato", split) :
        split \in UNION {Splits(toks) :
                            toks \in SeqsUpTo(AuthorVocabulary, MaxPlatoLen)}}

AristotleInputs ==
    {AuthorTexts("Aristotle", split) :
        split \in UNION {Splits(toks) :
                            toks \in SeqsUpTo(AuthorVocabulary,
                                              MaxAristotleLen)}}

AuthorInputs ==
    (PlatoInputs \X AristotleInputs)
        \cup {<<WidePlato(shape[1], shape[2]),
                WideAristotle(shape[1], shape[2])>> : shape \in WideShapes}

MaxTexts == 3      \* all_texts holds at most this many texts

MaxWords == 2      \* a text's tokens_lower has at most this many tokens
MaxSentences == 2  \* a text has at most this many sentences

\* Words of 1, 6 and 7 letters.
WordVocabulary == {"a", "virtue", "justice"}

ExampleWords == <<"a", "elephant", "ox">>

\* "", "a", "a a", " a  a a"
Sentences ==
    {<<>>, <<"a">>, <<"a", " ", "a">>,
     <<" ", "a", " ", " ", "a", " ", "a">>}

\* The lists whose scan is followed step by step.
ScanInputs ==
    {<<>>, Example} \cup PatternedInputs

\* The processed texts: each field is a list, or None when the upstream
\* collaborator left it out.
DocumentInputs ==
    [tokens_lower :
        {PyNone, PyList(ExampleWords)}
            \cup {PyList(toks) : toks \in SeqsUpTo(WordVocabulary, MaxWords)},
     tokens_lemmatized :
        {PyNone, PyList(<<>>), PyList(<<"b", "said", "a", "b">>)},
     sentences :
        {PyNone} \cup {PyList(ss0) : ss0 \in SeqsUpTo(Sentences, MaxSentences)}]

\* File stems: some contain the text that joins two identifiers in a key.
\* a, a vs b, b vs a, a|||b, b|||a
TextIds ==
    {<<"a">>,
     <<"a">> \o VsSeparator \o <<"b">>, <<"b">> \o VsSeparator \o <<"a">>,
     <<"a">> \o BarSeparator \o <<"b">>, <<"b">> \o BarSeparator \o <<"a">>}

TextTokens == {<<>>, <<"good", "form", "good">>}

\* The dicts of at most MaxTexts texts: their keys are distinct.
TextsInputs ==
    UNION {{[k \in 1..Len(ids) |-> Text(ids[k], toks[k])] :
                toks \in [1..Len(ids) -> TextTokens]} :
           ids \in {s \in SeqsUpTo(TextIds, MaxTexts) :
                      \A a, b \in 1..Len(s) : s[a] = s[b] => a = b}}

MaxFiles == 3      \* data/processed holds at most this many files

\* Plato, AristotlePlato, Aristotle, Artistotle, Laws, a|||b
Stems ==
    {Plato, Aristotle \o Plato, Aristotle, Artistotle,
     <<"L", "a", "w", "s">>, <<"a">> \o BarSeparator \o <<"b">>}

\* The preprocessed text of an empty file and of two short ones.
ProcessedTexts ==
    {Processed(<<>>, <<>>, <<>>),
     Processed(<<<<"a", " ", "a">>, <<"a">>>>,
               <<"the", "good", "form">>, <<"good", "form", "good">>),
     Processed(<<<<"a">>>>, <<"truth">>, <<"truth">>)}

\* list(processed_dir.glob('*.txt')) in any order with the text of each
\* file: the stems of the files of one directory are distinct.
FileInputs ==
    UNION {{[k \in 1..Len(stems) |-> <<stems[k], texts[k]>>] :
                texts \in [1..Len(stems) -> ProcessedTexts]} :
           stems \in {s \in SeqsUpTo(Stems, MaxFiles) :
                        \A a, b \in 1..Len(s) : s[a] = s[b] => a = b}}

----------------------------------------------------------------------------
(* The calls *)

NothingReturned ==
    /\ returned = {}
    /\ mtld = None /\ ld = None /\ ov = None /\ ovr = None /\ top = None

\* No pairwise loop runs.
NoTexts ==
    /\ orchestrator = "analyze_all_texts"
    /\ all_texts = <<>>
    /\ pair_i = 0 /\ pair_j = 1
    /\ pairwise_overlaps = <<>>

\* No author has a text, and no comparison was made.
NoAuthors ==
    /\ plato_texts = <<>> /\ aristotle_texts = <<>>
    /\ ac = None /\ ac2 = None

\* No processed text is analysed.
NoDocument ==
    /\ doc = None
    /\ ss = None /\ ws = None

\* No call of _calculate_mtld is inside its loop.
NoScan == scan = None

\* No orchestrator runs.
NoProgram ==
    /\ pc = "none"
    /\ txt_files = <<>>
    /\ results = <<>>
    /\ network = None

InitDiversity ==
    /\ tokens \in DiversityInputs
    /\ tokens2 = <<>> /\ n = 0 /\ exclude_common = TRUE
    /\ NothingReturned
    /\ NoScan /\ NoProgram
    /\ NoTexts /\ NoAuthors /\ NoDocument

InitDiversityLong ==
    /\ tokens \in ShortInputs \cup {LongInput}
    /\ tokens2 = <<>> /\ n = 0 /\ exclude_common = TRUE
    /\ NothingReturned
    /\ NoScan /\ NoProgram
    /\ NoTexts /\ NoAuthors /\ NoDocument

InitOverlap ==
    /\ \E pair \in (OverlapInputs \X OverlapInputs)
                        \cup {<<ExampleFirst, ExampleSecond>>}
                        \cup WideOverlapInputs :
            tokens = pair[1] /\ tokens2 = pair[2]
    /\ n = 0 /\ exclude_common = TRUE
    /\ NothingReturned
    /\ NoScan /\ NoProgram
    /\ NoTexts /\ NoAuthors /\ NoDocument

InitTopWords ==
    /\ tokens \in TopInputs
    /\ tokens2 = <<>>
    /\ n \in 0..MaxN
    /\ exclude_common \in BOOLEAN
    /\ NothingReturned
    /\ NoScan /\ NoProgram
    /\ NoTexts /\ NoAuthors /\ NoDocument

\* analyzer._calculate_mtld(tokens)
CallMtld ==
    /\ "mtld" \notin returned
    /\ mtld' = _calculate_mtld(tokens)
    /\ returned' = returned \cup {"mtld"}
    /\ UNCHANGED <<inputs, scan, program, ld, ov, ovr, top, pairwise,
                   authors, document>>

\* analyzer.calculate_lexical_diversity(tokens)
CallLexicalDiversity ==
    /\ "ld" \notin returned
    /\ ld' = calculate_lexical_diversity(tokens)
    /\ returned' = returned \cup {"ld"}
    /\ UNCHANGED <<inputs, scan, program, mtld, ov, ovr, top, pairwise,
                   authors, document>>

\* analyzer.calculate_vocabulary_overlap(tokens, tokens2)
CallOverlap ==
    /\ "ov" \notin returned
    /\ ov' = calculate_vocabulary_overlap(tokens, tokens2)
    /\ returned' = returned \cup {"ov"}
    /\ UNCHANGED <<inputs, scan, program, mtld, ld, ovr, top, pairwise,
                   authors, document>>

\* analyzer.calculate_vocabulary_overlap(tokens2, tokens)
CallOverlapReversed ==
    /\ "ovr" \notin returned
    /\ ovr' = calculate_vocabulary_overlap(tokens2, tokens)
    /\ returned' = returned \cup {"ovr"}
    /\ UNCHANGED <<inputs, scan, program, mtld, ld, ov, top, pairwise,
                   authors, document>>

\* analyzer.get_top_words(tokens, n, exclude_common)
CallTopWords ==
    /\ "top" \notin returned
    /\ top' = get_top_words(tokens, n, exclude_common)
    /\ returned' = returned \cup {"top"}
    /\ UNCHANGED <<inputs, scan, program, mtld, ld, ov, ovr, pairwise,
                   authors, document>>

\* _calculate_mtld(tokens), one iteration of its loop at a time
InitScan ==
    /\ tokens \in ScanInputs
    /\ tokens2 = <<>> /\ n = 0 /\ exclude_common = TRUE
    /\ NothingReturned
    /\ NoScan /\ NoProgram
    /\ NoTexts /\ NoAuthors /\ NoDocument

\* if len(tokens) < 50: return 0
ScanTooShort ==
    /\ "mtld" \notin returned
    /\ scan = None
    /\ Len(tokens) < MinTokens
    /\ mtld' = Rat(0, 1)
    /\ returned' = returned \cup {"mtld"}
    /\ UNCHANGED <<inputs, scan, program, ld, ov, ovr, top, pairwise,
                   authors, document>>

\* factors = 0; start = 0; token_types = set()
ScanEnter ==
    /\ "mtld" \notin returned
    /\ scan = None
    /\ Len(tokens) >= MinTokens
    /\ scan' = ScanStart
    /\ UNCHANGED <<inputs, program, returned, mtld, ld, ov, ovr, top,
                   pairwise, authors, document>>

\* One iteration of for i, token in enumerate(tokens)
ScanStep ==
    /\ "mtld" \notin returned
    /\ scan # None
    /\ scan.i < Len(tokens)
    /\ scan' = ScanIteration(tokens, scan)
    /\ UNCHANGED <<inputs, program, returned, mtld, ld, ov, ovr, top,
                   pairwise, authors, document>>

\* The loop is exhausted:
\* if factors == 0: return len(tokens);  return len(tokens) / factors
ScanReturn ==
    /\ "mtld" \notin returned
    /\ scan # None
    /\ scan.i >= Len(tokens)
    /\ mtld' = MtldReturn(Len(tokens), scan.factors)
    /\ returned' = returned \cup {"mtld"}
    /\ UNCHANGED <<inputs, scan, program, ld, ov, ovr, top, pairwise,
                   authors, document>>

NextScan == ScanTooShort \/ ScanEnter \/ ScanStep \/ ScanReturn

\* A call that has started goes on until it returns.
SpecScan == InitScan /\ [][NextScan]_vars /\ WF_vars(NextScan)

InitAuthors ==
    /\ \E pair \in AuthorInputs :
            plato_texts = pair[1] /\ aristotle_texts = pair[2]
    /\ ac = None /\ ac2 = None
    /\ tokens = <<>> /\ tokens2 = <<>> /\ n = 0 /\ exclude_common = TRUE
    /\ NothingReturned
    /\ NoScan /\ NoProgram
    /\ NoTexts /\ NoDocument

\* analyzer.compare_author_vocabularies(plato_texts, aristotle_texts)
CallCompareAuthors ==
    /\ "ac" \notin returned
    /\ \E order \in IterationOrders(
                        SharedVocabulary(plato_texts, aristotle_texts)) :
            ac' = compare_author_vocabularies(plato_texts, aristotle_texts,
                                              order)
    /\ returned' = returned \cup {"ac"}
    /\ UNCHANGED <<inputs, scan, program, mtld, ld, ov, ovr, top, pairwise,
                   plato_texts, aristotle_texts, ac2, document>>

\* The same call in another run of the program on the same texts.
CallCompareAuthorsAgain ==
    /\ "ac2" \notin returned
    /\ \E order \in IterationOrders(
                        SharedVocabulary(plato_texts, aristotle_texts)) :
            ac2' = compare_author_vocabularies(plato_texts, aristotle_texts,
                                               order)
    /\ returned' = returned \cup {"ac2"}
    /\ UNCHANGED <<inputs, scan, program, mtld, ld, ov, ovr, top, pairwise,
                   plato_texts, aristotle_texts, ac, document>>

NextAuthors == CallCompareAuthors \/ CallCompareAuthorsAgain

SpecAuthors == InitAuthors /\ [][CallCompareAuthors]_vars
SpecAuthorsTwice == InitAuthors /\ [][NextAuthors]_vars

InitDocument ==
    /\ doc \in DocumentInputs
    /\ ss = None /\ ws = None
    /\ tokens = <<>> /\ tokens2 = <<>>
    /\ n = 50
    /\ exclude_common \in BOOLEAN
    /\ NothingReturned
    /\ NoScan /\ NoProgram
    /\ NoTexts /\ NoAuthors

\* analyzer.calculate_lexical_diversity(data['tokens_lower'])
CallDocLexicalDiversity ==
    /\ "ld" \notin returned
    /\ ld' = LexicalDiversityOf(doc.tokens_lower)
    /\ returned' = returned \cup {"ld"}
    /\ UNCHANGED <<inputs, scan, program, mtld, ov, ovr, top, pairwise,
                   authors, doc, ss, ws>>

\* analyzer.calculate_sentence_stats(data['sentences'])
CallDocSentenceStats ==
    /\ "ss" \notin returned
    /\ ss' = calculate_sentence_stats(doc.sentences)
    /\ returned' = returned \cup {"ss"}
    /\ UNCHANGED <<inputs, scan, program, mtld, ld, ov, ovr, top, pairwise,
                   authors, doc, ws>>

\* analyzer.calculate_word_stats(data['tokens_lower'])
CallDocWordStats ==
    /\ "ws" \notin returned
    /\ ws' = calculate_word_stats(doc.tokens_lower)
    /\ returned' = returned \cup {"ws"}
    /\ UNCHANGED <<inputs, scan, program, mtld, ld, ov, ovr, top, pairwise,
                   authors, doc, ss>>

\* analyzer.get_top_words(data['tokens_lemmatized'], n=50), with either
\* value of the parameter exclude_common
CallDocTopWords ==
    /\ "top" \notin returned
    /\ top' = TopWordsOf(doc.tokens_lemmatized, n, exclude_common)
    /\ returned' = returned \cup {"top"}
    /\ UNCHANGED <<inputs, scan, program, mtld, ld, ov, ovr, pairwise,
                   authors, document>>

NextDocument ==
    \/ CallDocLexicalDiversity
    \/ CallDocSentenceStats
    \/ CallDocWordStats
    \/ CallDocTopWords

SpecDocument == InitDocument /\ [][NextDocument]_vars

InitPairwise ==
    /\ orchestrator \in {"analyze_all_texts", "run_all_analyses"}
    /\ all_texts \in TextsInputs
    /\ pair_i = 0 /\ pair_j = 1
    /\ pairwise_overlaps = <<>>
    /\ tokens = <<>> /\ tokens2 = <<>> /\ n = 0 /\ exclude_common = TRUE
    /\ NothingReturned
    /\ NoScan
    /\ pc = "pairwise"
    /\ txt_files = <<>> /\ results = <<>> /\ network = None
    /\ NoAuthors /\ NoDocument

\* The body of the inner loop, for id1 = text_ids[i] and the next id2 of
\* text_ids[i+1:].
PairwiseBody ==
    /\ pc = "pairwise"
    /\ pair_i < Len(text_ids)
    /\ pair_j < Len(text_ids)
    /\ LET id1 == text_ids[pair_i + 1]
           id2 == text_ids[pair_j + 1]
           pair_key == PairKey(id1, id2)
           overlap == calculate_vocabulary_overlap(
                          TextOf(id1).tokens_lemmatized,
                          TextOf(id2).tokens_lemmatized)
       IN  pairwise_overlaps' = DictSet(pairwise_overlaps, pair_key, overlap)
    /\ pair_j' = pair_j + 1
    /\ UNCHANGED <<inputs, scan, program, returned, mtld, ld, ov, ovr, top,
                   orchestrator, all_texts, pair_i, authors, document>>

\* text_ids[i+1:] is exhausted: the outer loop takes the next id1.
PairwiseNextId1 ==
    /\ pc = "pairwise"
    /\ pair_i < Len(text_ids)
    /\ pair_j >= Len(text_ids)
    /\ pair_i' = pair_i + 1
    /\ pair_j' = pair_i + 2
    /\ UNCHANGED <<inputs, scan, program, returned, mtld, ld, ov, ovr, top,
                   orchestrator, all_texts, pairwise_overlaps,
                   authors, document>>

\* The outer loop is exhausted.
PairwiseDone == pair_i >= Len(text_ids)

NextPairwise == PairwiseBody \/ PairwiseNextId1

SpecPairwise == InitPairwise /\ [][NextPairwise]_vars

\* analyze_all_texts, and generate_all_data (load_all_texts, then
\* run_all_analyses), from the listing of data/processed on
InitOrchestrator ==
    /\ orchestrator \in {"analyze_all_texts", "run_all_analyses"}
    /\ txt_files \in FileInputs
    /\ pc = "load"
    /\ all_texts = <<>>
    /\ plato_texts = <<>> /\ aristotle_texts = <<>>
    /\ results = <<>>
    /\ ac = None /\ ac2 = None
    /\ pair_i = 0 /\ pair_j = 1
    /\ pairwise_overlaps = <<>>
    /\ network = None
    /\ tokens = <<>> /\ tokens2 = <<>> /\ n = 0 /\ exclude_common = TRUE
    /\ NothingReturned
    /\ NoScan /\ NoDocument

\* if not txt_files: print(...); return
NoTextsFound ==
    /\ pc = "load"
    /\ txt_files = <<>> /\ all_texts = <<>>
    /\ pc' = "done"
    /\ UNCHANGED <<inputs, scan, returned, mtld, ld, ov, ovr, top, pairwise,
                   authors, document, txt_files, results, network>>

\* One iteration of for txt_path in tqdm(txt_files)
LoadText ==
    /\ pc = "load"
    /\ txt_files # <<>>
    /\ LET text_id == Head(txt_files)[1]
           processed == Head(txt_files)[2]
       IN  /\ all_texts' = DictSet(all_texts, text_id, processed)
           /\ plato_texts' =
                 IF AuthorGroup(text_id) = "plato_texts"
                 THEN DictSet(plato_texts, text_id, processed)
                 ELSE plato_texts
           /\ aristotle_texts' =
                 IF AuthorGroup(text_id) = "aristotle_texts"
                 THEN DictSet(aristotle_texts, text_id, processed)
                 ELSE aristotle_texts
    /\ txt_files' = Tail(txt_files)
    /\ UNCHANGED <<inputs, scan, returned, mtld, ld, ov, ovr, top,
                   orchestrator, pair_i, pair_j, pairwise_overlaps, ac, ac2,
                   document, pc, results, network>>

\* The loading loop is exhausted; the loop of the individual analysis
IndividualAnalysis ==
    /\ pc = "load"
    /\ txt_files = <<>> /\ all_texts # <<>>
    /\ results' = IndividualResults(all_texts)
    /\ pc' = "compare"
    /\ UNCHANGED <<inputs, scan, returned, mtld, ld, ov, ovr, top, pairwise,
                   authors, document, txt_files, network>>

\* analyzer.compare_author_vocabularies(plato_texts, aristotle_texts); an
\* exception it raises ends the orchestrator
CompareAuthors ==
    /\ pc = "compare"
    /\ \E order \in IterationOrders(SharedVocabulary(plato_texts,
                                                      aristotle_texts)) :
          ac' = compare_author_vocabularies(plato_texts, aristotle_texts,
                                            order)
    /\ pc' = IF Raised(ac') THEN "raised" ELSE "pairwise"
    /\ UNCHANGED <<inputs, scan, returned, mtld, ld, ov, ovr, top, pairwise,
                   plato_texts, aristotle_texts, ac2, document,
                   txt_files, results, network>>

\* The pairwise loop is exhausted: analyze_all_texts saves and prints,
\* run_all_analyses goes on to the topic model.
PairwiseEnd ==
    /\ pc = "pairwise"
    /\ PairwiseDone
    /\ pc' = IF orchestrator = "analyze_all_texts" THEN "done" ELSE "topics"
    /\ UNCHANGED <<inputs, scan, returned, mtld, ld, ov, ovr, top, pairwise,
                   authors, document, txt_files, results, network>>

\* Steps 4 and 5 of run_all_analyses: the topic model (gensim) and the
\* sentiment file.  They write none of the data modelled here; whether the
\* library calls return or raise is not decided by this program.
TopicsAndSentiment ==
    /\ pc = "topics"
    /\ pc' \in {"network", "raised"}
    /\ UNCHANGED <<inputs, scan, returned, mtld, ld, ov, ovr, top, pairwise,
                   authors, document, txt_files, results, network>>

\* network_data = create_network_data(all_texts, pairwise_comparisons)
CreateNetwork ==
    /\ pc = "network"
    /\ network' = create_network_data(all_texts, pairwise_overlaps)
    /\ pc' = IF Raised(network') THEN "raised" ELSE "done"
    /\ UNCHANGED <<inputs, scan, returned, mtld, ld, ov, ovr, top, pairwise,
                   authors, document, txt_files, results>>

NextOrchestrator ==
    \/ NoTextsFound
    \/ LoadText
    \/ IndividualAnalysis
    \/ CompareAuthors
    \/ PairwiseBody
    \/ PairwiseNextId1
    \/ PairwiseEnd
    \/ TopicsAndSentiment
    \/ CreateNetwork

SpecOrchestrator == InitOrchestrator /\ [][NextOrchestrator]_vars

NextDiversity == CallMtld \/ CallLexicalDiversity
NextOverlap == CallOverlap \/ CallOverlapReversed

SpecDiversity == InitDiversity /\ [][NextDiversity]_vars
SpecDiversityLong == InitDiversityLong /\ [][CallLexicalDiversity]_vars
SpecOverlap == InitOverlap /\ [][NextOverlap]_vars
SpecTopWords == InitTopWords /\ [][CallTopWords]_vars

----------------------------------------------------------------------------
(* Properties of _calculate_mtld (SpecDiversity) *)

\* Positions are 1-based.  The tokens at positions s..j have a segment TTR
\* (distinct tokens / tokens) strictly below 0.72.
SegmentBelow(s, j) ==
    100 * Cardinality({tokens[k] : k \in s..j}) < 72 * (j - s + 1)

\* Where the segment starting at position s is completed: the first
\* position at which its TTR is below 0.72, or 0 if there is none.
FactorEnd(s) ==
    LET ends == {j \in s..Len(tokens) : SegmentBelow(s, j)}
    IN  IF ends = {} THEN 0
        ELSE CHOOSE j \in ends : \A other \in ends : j <= other

\* The number of factors completed from position s on.
RECURSIVE CompletedFactors(_)
CompletedFactors(s) ==
    IF FactorEnd(s) = 0 THEN 0 ELSE 1 + CompletedFactors(FactorEnd(s) + 1)

\* The number of tokens after the last completed factor, from position s on.
RECURSIVE TrailingTokens(_)
TrailingTokens(s) ==
    IF FactorEnd(s) = 0 THEN Len(tokens) - s + 1
    ELSE TrailingTokens(FactorEnd(s) + 1)

\* C1: for a list of at least 50 tokens with at least one completed factor,
\* _calculate_mtld returns (number of tokens) / (number of completed
\* factors); a factor is completed at each token after which the segment's
\* TTR is strictly below 0.72, the next segment starts empty at the next
\* token, and the tokens after the last factor count in the total only.
C1_MtldIsTotalOverFactors ==
    ("mtld" \in returned /\ Len(tokens) >= 50 /\ CompletedFactors(1) >= 1)
        => /\ ~Raised(mtld)
           /\ RatEq(mtld, Rat(Len(tokens), CompletedFactors(1)))

\* Several factors were completed and tokens are left over after the last.
C1_Witness ==
    /\ "mtld" \in returned
    /\ Len(tokens) >= 50
    /\ CompletedFactors(1) >= 2
    /\ TrailingTokens(1) >= 2
    /\ RatEq(mtld, Rat(Len(tokens), CompletedFactors(1)))

\* C2: for a list of fewer than 50 tokens, the empty list included,
\* _calculate_mtld returns 0 and raises nothing.
C2_ShortListsGiveZero ==
    ("mtld" \in returned /\ Len(tokens) < 50)
        => (~Raised(mtld) /\ RatEq(mtld, Rat(0, 1)))

\* 49 tokens among which factors are completed, and the result is 0.
C2_Witness ==
    /\ "mtld" \in returned
    /\ Len(tokens) = 49
    /\ CompletedFactors(1) >= 1
    /\ RatEq(mtld, Rat(0, 1))

\* After no token is the TTR of the list so far strictly below 0.72.
NeverBelow == \A j \in 1..Len(tokens) : ~SegmentBelow(1, j)

\* C3: for a list of at least 50 tokens in which the segment TTR never
\* drops below 0.72 (no factor is completed), _calculate_mtld returns the
\* length of the list.
C3_NoFactorGivesLength ==
    ("mtld" \in returned /\ Len(tokens) >= 50 /\ NeverBelow)
        => (~Raised(mtld) /\ RatEq(mtld, Rat(Len(tokens), 1)))

\* A list of 50 tokens, 36 of them distinct: the TTR ends at exactly 0.72.
C3_Witness ==
    /\ "mtld" \in returned
    /\ Len(tokens) = 50
    /\ Cardinality(ToSet(tokens)) = 36
    /\ NeverBelow
    /\ RatEq(mtld, Rat(50, 1))

----------------------------------------------------------------------------
(* Properties of calculate_lexical_diversity *)

\* The positions at which a token occurs for the first time.
FirstOccurrences ==
    {k \in 1..Len(tokens) : \A j \in 1..(k - 1) : tokens[j] # tokens[k]}

\* x is a multiple of 1/10000 nearest to a / b.
Nearest4(x, a, b) ==
    /\ x.den = 10000
    /\ 2 * (x.num * b - 10000 * a) <= b
    /\ 2 * (10000 * a - x.num * b) <= b

\* C4: calculate_lexical_diversity reports unique_words = number of distinct
\* tokens, total_words = length of the list and ttr = unique_words /
\* total_words rounded to 4 decimals ([the,cat,sat,on,the,mat]: 5, 6,
\* 0.8333); for the empty list it reports ttr = 0, unique_words = 0,
\* total_words = 0 and raises no division by zero.
C4_LexicalDiversityFields ==
    "ld" \in returned =>
        /\ ~Raised(ld)
        /\ ld.unique_words = Cardinality(FirstOccurrences)
        /\ ld.total_words = Len(tokens)
        /\ tokens = <<>> => ld.ttr.num = 0
        /\ tokens # <<>>
             => Nearest4(ld.ttr, Cardinality(FirstOccurrences), Len(tokens))
        /\ tokens = Example
             => /\ ld.unique_words = 5
                /\ ld.total_words = 6
                /\ ld.ttr = Rat(8333, 10000)

C4_Witness ==
    /\ "ld" \in returned
    /\ tokens = Example
    /\ ld.ttr = Rat(8333, 10000)

AllDistinct == Cardinality(ToSet(tokens)) = Len(tokens)

TtrInUnitInterval ==
    /\ ~Raised(ld)
    /\ RatLe(Rat(0, 1), ld.ttr)
    /\ RatLe(ld.ttr, Rat(1, 1))

\* C5 as stated: for every non-empty list the reported ttr is in [0, 1] and
\* is 1 if and only if all tokens are distinct.
C5_TtrOneIffAllDistinct ==
    ("ld" \in returned /\ tokens # <<>>)
        => /\ TtrInUnitInterval
           /\ RatEq(ld.ttr, Rat(1, 1)) <=> AllDistinct

\* C5, amended: for every non-empty list the reported ttr is in [0, 1]; it
\* is 1 when all tokens are distinct; when it is 1, at most one token in
\* 20000 repeats an earlier one, so that for a list of fewer than 20000
\* tokens it is 1 only if all tokens are distinct.
C5_TtrOneUpToRounding ==
    ("ld" \in returned /\ tokens # <<>>)
        => /\ TtrInUnitInterval
           /\ AllDistinct => RatEq(ld.ttr, Rat(1, 1))
           /\ RatEq(ld.ttr, Rat(1, 1))
                => 20000 * (Len(tokens) - Cardinality(ToSet(tokens)))
                      <= Len(tokens)
           /\ (RatEq(ld.ttr, Rat(1, 1)) /\ Len(tokens) < 20000) => AllDistinct

\* A list with a repeated token whose reported ttr is 1.
C5_Witness ==
    /\ "ld" \in returned
    /\ tokens # <<>>
    /\ ~AllDistinct
    /\ RatEq(ld.ttr, Rat(1, 1))

\* C18: for every token list, the empty one included, the record returned
\* by calculate_lexical_diversity has all four fields: ttr, unique_words,
\* total_words and mtld.
C18_AllFourFields ==
    "ld" \in returned =>
        DOMAIN ld = {"ttr", "unique_words", "total_words", "mtld"}

----------------------------------------------------------------------------
(* Properties of calculate_vocabulary_overlap (SpecOverlap) *)

V1 == {tokens[k] : k \in 1..Len(tokens)}
V2 == {tokens2[k] : k \in 1..Len(tokens2)}

\* x is a multiple of 1/100 nearest to a / b.
Nearest2(x, a, b) ==
    /\ x.den = 100
    /\ 2 * (x.num * b - 100 * a) <= b
    /\ 2 * (100 * a - x.num * b) <= b

\* C6: the result counts the two vocabularies (the sets of distinct tokens):
\* shared_words = |V1 \cap V2|, unique_to_first = |V1 \ V2|,
\* unique_to_second = |V2 \ V1| and, when the union is not empty,
\* jaccard_similarity = |V1 \cap V2| / |V1 \cup V2| rounded to 4 decimals;
\* a list with the same tokens repeated or in another order, in place of
\* either input, gives the same result in every field.
C6_OverlapOfVocabularies ==
    "ov" \in returned =>
        /\ ~Raised(ov)
        /\ ov.shared_words = Cardinality(V1 \cap V2)
        /\ ov.unique_to_first = Cardinality(V1 \ V2)
        /\ ov.unique_to_second = Cardinality(V2 \ V1)
        /\ (V1 \cup V2) # {}
             => Nearest4(ov.jaccard_similarity, Cardinality(V1 \cap V2),
                         Cardinality(V1 \cup V2))
        /\ \A other \in OverlapInputs :
             /\ ToSet(other) = V1
                  => calculate_vocabulary_overlap(other, tokens2) = ov
             /\ ToSet(other) = V2
                  => calculate_vocabulary_overlap(tokens, other) = ov
        /\ (tokens = ExampleFirst /\ tokens2 = ExampleSecond)
             => /\ ov.shared_words = 2
                /\ ov.jaccard_similarity = Rat(5000, 10000)
                /\ ov.overlap_percentage_first = Rat(6667, 100)
                /\ ov.overlap_percentage_second = Rat(6667, 100)

\* The first list repeats a token, and each of the three counts is not 0.
C6_Witness ==
    /\ "ov" \in returned
    /\ Len(tokens) > Cardinality(V1)
    /\ ov.shared_words >= 1
    /\ ov.unique_to_first >= 1
    /\ ov.unique_to_second >= 1

\* C7: the overlap of (A, B) and the overlap of (B, A) have the same
\* shared_words and the same jaccard_similarity; overlap_percentage_first
\* of (A, B) is overlap_percentage_second of (B, A), and unique_to_first of
\* (A, B) is unique_to_second of (B, A).
C7_OverlapSymmetry ==
    ({"ov", "ovr"} \subseteq returned) =>
        /\ ~Raised(ov) /\ ~Raised(ovr)
        /\ ov.shared_words = ovr.shared_words
        /\ ov.jaccard_similarity = ovr.jaccard_similarity
        /\ ov.overlap_percentage_first = ovr.overlap_percentage_second
        /\ ov.unique_to_first = ovr.unique_to_second

\* Both calls returned, for vocabularies whose two percentages differ.
C7_Witness ==
    /\ {"ov", "ovr"} \subseteq returned
    /\ ov.shared_words >= 1
    /\ ov.overlap_percentage_first # ov.overlap_percentage_second
    /\ ov.overlap_percentage_first = ovr.overlap_percentage_second

\* C8: calculate_vocabulary_overlap raises for no pair of lists:
\* jaccard_similarity is 0 when both vocabularies are empty,
\* overlap_percentage_first is 0 when the first vocabulary is empty and
\* shared / |V1| * 100 otherwise, and likewise overlap_percentage_second
\* for the second vocabulary.
C8_OverlapNeverRaises ==
    "ov" \in returned =>
        /\ ~Raised(ov)
        /\ (V1 = {} /\ V2 = {}) => RatEq(ov.jaccard_similarity, Rat(0, 1))
        /\ V1 = {} => RatEq(ov.overlap_percentage_first, Rat(0, 1))
        /\ V1 # {} => Nearest2(ov.overlap_percentage_first,
                               100 * Cardinality(V1 \cap V2), Cardinality(V1))
        /\ V2 = {} => RatEq(ov.overlap_percentage_second, Rat(0, 1))
        /\ V2 # {} => Nearest2(ov.overlap_percentage_second,
                               100 * Cardinality(V1 \cap V2), Cardinality(V2))

\* Both lists are empty and the call returned its record.
C8_Witness ==
    /\ "ov" \in returned
    /\ tokens = <<>> /\ tokens2 = <<>>
    /\ ~Raised(ov)
    /\ RatEq(ov.jaccard_similarity, Rat(0, 1))
    /\ RatEq(ov.overlap_percentage_first, Rat(0, 1))

\* C17: shared_words_list is strictly ascending in the order of str, holds
\* only words of the intersection, and has exactly min(100, |V1 \cap V2|)
\* entries, the smallest ones; shared_words counts the full intersection
\* and the two percentages are taken from it, so that shared_words exceeds
\* the length of the list when more than 100 words are shared.
C17_SharedWordsList ==
    "ov" \in returned =>
        LET list == ov.shared_words_list
            listed == {list[k] : k \in 1..Len(list)}
        IN  /\ ~Raised(ov)
            /\ \A k \in 1..(Len(list) - 1) : StrLt(list[k], list[k + 1])
            /\ listed \subseteq V1 \cap V2
            /\ Len(list) = IF Cardinality(V1 \cap V2) < 100
                            THEN Cardinality(V1 \cap V2) ELSE 100
            /\ \A w \in (V1 \cap V2) \ listed : \A k \in 1..Len(list) :
                 StrLt(list[k], w)
            /\ ov.shared_words = Cardinality(V1 \cap V2)
            /\ V1 # {} => Nearest2(ov.overlap_percentage_first,
                                   100 * Cardinality(V1 \cap V2),
                                   Cardinality(V1))
            /\ V2 # {} => Nearest2(ov.overlap_percentage_second,
                                   100 * Cardinality(V1 \cap V2),
                                   Cardinality(V2))

\* 101 words are shared, 100 are listed, and the greatest is left out.
C17_Witness ==
    /\ "ov" \in returned
    /\ ov.shared_words = 101
    /\ Len(ov.shared_words_list) = 100
    /\ "virtue" \in V1 \cap V2
    /\ ov.shared_words_list[1] = Numbered(3)
    /\ ov.shared_words_list[100] = Numbered(102)

----------------------------------------------------------------------------
(* Properties of get_top_words (SpecTopWords) *)

\* The positions of the input whose token is counted.
KeptPositions ==
    {k \in 1..Len(tokens) : ~exclude_common \/ tokens[k] \notin common}

KeptTokens == {tokens[k] : k \in KeptPositions}

Occurrences(x) == Cardinality({k \in KeptPositions : tokens[k] = x})

FirstPosition(x) ==
    CHOOSE k \in KeptPositions :
        tokens[k] = x /\ \A j \in KeptPositions : tokens[j] = x => k <= j

ReturnedTokens == {top[i][1] : i \in 1..Len(top)}

\* C9: the (token, count) pairs are in non-increasing order of count; two
\* returned tokens with equal counts are in the order of their first
\* occurrence in the filtered input ([b,a,b,a,c] with 2 words: b, then a);
\* no omitted token has a count greater than a returned one, and of the
\* tokens tied at the cut-off the earliest are kept.
C9_TopWordsOrder ==
    "top" \in returned =>
        /\ \A i, j \in 1..Len(top) :
             i < j => /\ top[i][2] >= top[j][2]
                      /\ top[i][2] = top[j][2]
                           => FirstPosition(top[i][1]) < FirstPosition(top[j][1])
        /\ \A x \in KeptTokens \ ReturnedTokens : \A i \in 1..Len(top) :
             /\ Occurrences(x) <= top[i][2]
             /\ Occurrences(x) = top[i][2]
                  => FirstPosition(top[i][1]) < FirstPosition(x)
        /\ (tokens = <<"b", "a", "b", "a", "c">> /\ n = 2)
             => top = << <<"b", 2>>, <<"a", 2>> >>

C9_Witness ==
    /\ "top" \in returned
    /\ tokens = <<"b", "a", "b", "a", "c">>
    /\ n = 2
    /\ top = << <<"b", 2>>, <<"a", 2>> >>

\* C10: with exclusion on and n >= 0, get_top_words returns exactly
\* min(n, number of distinct tokens outside the exclusion set) pairs; no
\* returned token is in the exclusion set, none is returned twice, and each
\* count is the number of occurrences of its token in the input, so not 0.
C10_TopWordsSize ==
    ("top" \in returned /\ exclude_common) =>
        LET distinct == Cardinality({tokens[k] : k \in 1..Len(tokens)} \ common)
        IN  /\ Len(top) = IF n < distinct THEN n ELSE distinct
            /\ \A i \in 1..Len(top) :
                 /\ top[i][1] \notin common
                 /\ top[i][2] = Cardinality({k \in 1..Len(tokens) :
                                                tokens[k] = top[i][1]})
                 /\ top[i][2] >= 1
            /\ \A i, j \in 1..Len(top) : top[i][1] = top[j][1] => i = j

\* An excluded word occurs more often than any other, and fewer words are
\* left than were asked for.
C10_Witness ==
    /\ "top" \in returned
    /\ exclude_common
    /\ Cardinality({k \in 1..Len(tokens) : tokens[k] = "said"}) >= 2
    /\ Len(top) >= 1
    /\ Len(top) < n
    /\ top[1][2] = 1

----------------------------------------------------------------------------
(* Properties of the pairwise loop (SpecPairwise) *)

\* The pairs of places (1-based) in text_ids the loop goes through.
Pairs ==
    {p \in (1..Len(text_ids)) \X (1..Len(text_ids)) : p[1] < p[2]}

KeyOfPair(p) == PairKey(text_ids[p[1]], text_ids[p[2]])

\* C11: when the loop is over, for n texts with pairwise distinct
\* identifiers the mapping has exactly n*(n-1)/2 entries: every pair of
\* distinct texts has its key in the mapping, no key joins a text with
\* itself, and no two pairs have the same key.
C11_PairwiseComplete ==
    PairwiseDone =>
        /\ 2 * Len(pairwise_overlaps) = Len(text_ids) * (Len(text_ids) - 1)
        /\ \A p \in Pairs : KeyOfPair(p) \in DictKeys(pairwise_overlaps)
        /\ \A k \in 1..Len(text_ids) :
             PairKey(text_ids[k], text_ids[k]) \notin DictKeys(pairwise_overlaps)
        /\ \A p, q \in Pairs : KeyOfPair(p) = KeyOfPair(q) => p = q

----------------------------------------------------------------------------
(* Properties of compare_author_vocabularies (SpecAuthors) *)

\* The token list of the k-th text of a dict of texts.
TokensOfText(texts, k) == texts[k][2].tokens_lemmatized

\* The places of a corpus: <<d, k>> is the k-th token of the d-th text.
Places(texts) ==
    UNION {{<<d, k>> : k \in 1..Len(TokensOfText(texts, d))} :
           d \in 1..Len(texts)}

TokenAt(texts, place) == TokensOfText(texts, place[1])[place[2]]

\* The vocabulary of a corpus, and of each author.
VocabularyOf(texts) == {TokenAt(texts, place) : place \in Places(texts)}
P == VocabularyOf(plato_texts)
A == VocabularyOf(aristotle_texts)

\* How often a word occurs in a corpus.
OccurrencesIn(texts, word) ==
    Cardinality({place \in Places(texts) : TokenAt(texts, place) = word})

\* Place p comes before place q in the concatenation of the texts.
PlaceBefore(p, q) == p[1] < q[1] \/ (p[1] = q[1] /\ p[2] < q[2])

\* The first place of a word in a corpus.
FirstPlace(texts, word) ==
    CHOOSE p \in Places(texts) :
        /\ TokenAt(texts, p) = word
        /\ \A q \in Places(texts) :
             TokenAt(texts, q) = word => (q = p \/ PlaceBefore(p, q))

\* C12: when Plato's vocabulary P is not empty (so that both quotients are
\* defined), compare_author_vocabularies reports plato_vocabulary_size =
\* |P|, aristotle_vocabulary_size = |A|, shared_vocabulary = |P \cap A|,
\* plato_unique = |P \ A|, aristotle_unique = |A \ P|, overlap_percentage =
\* |P \cap A| / |P \cup A| * 100 and aristotle_uses_plato = |P \cap A| / |P|
\* * 100, both rounded to 2 decimals, where P and A are the sets of tokens
\* of all texts of each author: whatever the number of texts and however
\* the tokens are split across them.
C12_AuthorComparisonFields ==
    ("ac" \in returned /\ P # {}) =>
        /\ ~Raised(ac)
        /\ ac.plato_vocabulary_size = Cardinality(P)
        /\ ac.aristotle_vocabulary_size = Cardinality(A)
        /\ ac.shared_vocabulary = Cardinality(P \cap A)
        /\ ac.plato_unique = Cardinality(P \ A)
        /\ ac.aristotle_unique = Cardinality(A \ P)
        /\ Nearest2(ac.overlap_percentage,
                    100 * Cardinality(P \cap A), Cardinality(P \cup A))
        /\ Nearest2(ac.aristotle_uses_plato,
                    100 * Cardinality(P \cap A), Cardinality(P))

\* Plato's tokens are split over two texts that have a word in common, both
\* authors have words of their own, and the two percentages differ.
C12_Witness ==
    /\ "ac" \in returned
    /\ Len(plato_texts) = 2
    /\ ToSet(TokensOfText(plato_texts, 1))
            \cap ToSet(TokensOfText(plato_texts, 2)) # {}
    /\ ~Raised(ac)
    /\ ac.shared_vocabulary >= 1
    /\ ac.plato_unique >= 1
    /\ ac.aristotle_unique >= 1
    /\ ac.overlap_percentage = Rat(3333, 100)
    /\ ac.aristotle_uses_plato = Rat(5000, 100)

\* C13: compare_author_vocabularies raises for no two groups of texts, a
\* group with no text or with only empty texts included: it returns a
\* record.
C13_CompareAuthorsNeverRaises ==
    "ac" \in returned => ~Raised(ac)

\* The words listed in top_shared_words.
ListedShared == {ac.top_shared_words[k].word : k \in 1..Len(ac.top_shared_words)}

\* The summed count of a word over both corpora.
SummedCount(word) ==
    OccurrencesIn(plato_texts, word) + OccurrencesIn(aristotle_texts, word)

\* C14: top_shared_words of a returned record has exactly min(50, |P \cap
\* A|) entries; each is a shared word, listed once, with its number of
\* occurrences in Plato's corpus and in Aristotle's (both at least 1); the
\* entries are in non-increasing order of the sum of the two counts; and no
\* shared word left out has a greater sum than a listed one.
C14_TopSharedWords ==
    ("ac" \in returned /\ ~Raised(ac)) =>
        \A sum \in {[w \in P \cap A |-> SummedCount(w)]} :
        LET listed == ac.top_shared_words
        IN  /\ Len(listed) = IF Cardinality(P \cap A) < 50
                              THEN Cardinality(P \cap A) ELSE 50
            /\ \A k \in 1..Len(listed) :
                 /\ listed[k].word \in P \cap A
                 /\ listed[k].plato_count
                        = OccurrencesIn(plato_texts, listed[k].word)
                 /\ listed[k].aristotle_count
                        = OccurrencesIn(aristotle_texts, listed[k].word)
                 /\ listed[k].plato_count >= 1
                 /\ listed[k].aristotle_count >= 1
            /\ \A k, m \in 1..Len(listed) :
                 /\ listed[k].word = listed[m].word => k = m
                 /\ k < m => sum[listed[k].word] >= sum[listed[m].word]
            /\ \A w \in (P \cap A) \ ListedShared : \A k \in 1..Len(listed) :
                 sum[w] <= sum[listed[k].word]

\* More than 100 words are shared, with different sums, and 50 are listed.
C14_Witness ==
    /\ "ac" \in returned
    /\ ~Raised(ac)
    /\ Cardinality(P \cap A) > 100
    /\ Len(ac.top_shared_words) = 50
    /\ SummedCount(ac.top_shared_words[1].word)
            > SummedCount(ac.top_shared_words[50].word)

\* ranking is the top list of the words of `own` that are not in `other`.
TopUniqueRanking(ranking, own, other) ==
    \A count \in {[w \in VocabularyOf(own) \ VocabularyOf(other) |->
                        OccurrencesIn(own, w)]} :
    LET unique == DOMAIN count
        listed == {ranking[k][1] : k \in 1..Len(ranking)}
    IN  /\ Len(ranking) = IF Cardinality(unique) < 30
                               THEN Cardinality(unique) ELSE 30
        /\ \A k \in 1..Len(ranking) :
             /\ ranking[k][1] \in VocabularyOf(own)
             /\ ranking[k][1] \notin VocabularyOf(other)
             /\ ranking[k][2] = count[ranking[k][1]]
        /\ \A k, m \in 1..Len(ranking) :
             k < m =>
                /\ ranking[k][2] >= ranking[m][2]
                /\ ranking[k][2] = ranking[m][2]
                     => PlaceBefore(FirstPlace(own, ranking[k][1]),
                                    FirstPlace(own, ranking[m][1]))
        /\ \A w \in unique \ listed : \A k \in 1..Len(ranking) :
             count[w] <= ranking[k][2]

\* C15: top_plato_unique and top_aristotle_unique of a returned record hold
\* at most 30 (token, count) pairs (30, or one per unique token if there
\* are fewer); every listed token occurs in that author's corpus and in no
\* text of the other; its count is its number of occurrences in the
\* author's concatenated corpus; the pairs are in non-increasing order of
\* count, equal counts in the order of first occurrence in the
\* concatenation of the texts in dict order; and no unique token left out
\* has a greater count than a listed one.
C15_TopUniqueWords ==
    ("ac" \in returned /\ ~Raised(ac)) =>
        /\ TopUniqueRanking(ac.top_plato_unique, plato_texts, aristotle_texts)
        /\ TopUniqueRanking(ac.top_aristotle_unique, aristotle_texts,
                            plato_texts)

\* Each author has more than 30 unique words; Aristotle's list starts with
\* two words of equal count, the first of them from the first text and the
\* second from the second text.
C15_Witness ==
    /\ "ac" \in returned
    /\ ~Raised(ac)
    /\ Cardinality(P \ A) > 30 /\ Cardinality(A \ P) > 30
    /\ Len(ac.top_plato_unique) = 30
    /\ Len(ac.top_aristotle_unique) = 30
    /\ \E k \in 1..29 :
         /\ ac.top_aristotle_unique[k][2] = ac.top_aristotle_unique[k + 1][2]
         /\ FirstPlace(aristotle_texts, ac.top_aristotle_unique[k][1])[1] = 1
         /\ FirstPlace(aristotle_texts,
                       ac.top_aristotle_unique[k + 1][1])[1] = 2

\* C16: for fixed texts in a fixed order, two computations of the author
\* comparison, in one run or in two, give the same result in every field,
\* the order of tied entries of top_shared_words included.
C16_SameResultEveryRun ==
    ({"ac", "ac2"} \subseteq returned) => ac = ac2

----------------------------------------------------------------------------
(* Properties of the per-document statistics (SpecDocument) *)

\* The number of tokens of more than 6 characters.
LongTokens(toks) == Cardinality({k \in 1..Len(toks) : Len(toks[k]) > 6})

\* C19: for a non-empty token list calculate_word_stats reports long_words =
\* the number of tokens of more than 6 characters (a token of exactly 6 is
\* not long) and long_word_ratio = long_words / number of tokens rounded to
\* 4 decimals ([a, elephant, ox]: 1 and 0.3333); for the empty list it
\* returns the empty record and raises nothing.
C19_WordStats ==
    ("ws" \in returned /\ ~IsNone(doc.tokens_lower)) =>
        LET toks == doc.tokens_lower.list
        IN  IF toks = <<>> THEN DOMAIN ws = {}
            ELSE /\ ~Raised(ws)
                 /\ ws.long_words = LongTokens(toks)
                 /\ Nearest4(ws.long_word_ratio, LongTokens(toks), Len(toks))
                 /\ toks = <<"virtue">> => ws.long_words = 0
                 /\ toks = ExampleWords =>
                       /\ ws.long_words = 1
                       /\ ws.long_word_ratio = Rat(3333, 10000)

\* The statistics of [a, elephant, ox] have been computed.
C19_Witness ==
    /\ "ws" \in returned
    /\ doc.tokens_lower = PyList(ExampleWords)
    /\ ws.long_words = 1
    /\ ws.long_word_ratio = Rat(3333, 10000)
    /\ ws.avg_word_length = Rat(367, 100)

\* C20: when a document's token list or sentence list is None, each of
\* calculate_lexical_diversity, calculate_word_stats,
\* calculate_sentence_stats and get_top_words raises an error, and none
\* returns what it returns for the empty list.
C20_NoneIsAnError ==
    /\ ("ld" \in returned /\ IsNone(doc.tokens_lower)) => Raised(ld)
    /\ ("ws" \in returned /\ IsNone(doc.tokens_lower)) => Raised(ws)
    /\ ("ss" \in returned /\ IsNone(doc.sentences)) => Raised(ss)
    /\ ("top" \in returned /\ IsNone(doc.tokens_lemmatized)) => Raised(top)

----------------------------------------------------------------------------
(* Properties of the scan of _calculate_mtld (SpecScan) *)

\* Inside the loop: the segment starts at or before the next index, which is
\* at most the length, and every completed factor took at least 2 of the
\* tokens before the segment.  After the return for a list of at least 50
\* tokens: every index was visited, at most floor(len / 2) factors were
\* completed, and 2 <= mtld <= len.
ScanBounds ==
    /\ scan # None =>
          /\ 0 <= scan.start /\ scan.start <= scan.i
          /\ scan.i <= Len(tokens)
          /\ 2 * scan.factors <= scan.start
    /\ ("mtld" \in returned /\ Len(tokens) >= MinTokens) =>
          /\ scan # None
          /\ scan.i = Len(tokens)
          /\ scan.factors <= Len(tokens) \div 2
          /\ ~Raised(mtld)
          /\ RatLe(Rat(2, 1), mtld)
          /\ RatLe(mtld, Rat(Len(tokens), 1))

\* A step of the loop goes from index i to i + 1, the first one from 0; a
\* step that completes a factor moves the segment's start at least 2 on.
ScanVisitsNext ==
    /\ (scan = None /\ scan' # None) => scan'.i = 0
    /\ (scan # None /\ scan' # scan) =>
          /\ scan'.i = scan.i + 1
          /\ \/ scan'.factors = scan.factors /\ scan'.start = scan.start
             \/ /\ scan'.factors = scan.factors + 1
                /\ scan'.start >= scan.start + 2

\* C22: for a list of n >= 50 tokens the MTLD returned by _calculate_mtld is
\* between 2 and n inclusive: every completed factor takes at least 2
\* tokens, so at most floor(n / 2) factors are completed; the scan visits
\* the indices 0, 1, ..., n - 1 once each, in this order, and the call
\* returns.
C22_MtldBetweenTwoAndLength ==
    /\ []ScanBounds
    /\ [][ScanVisitsNext]_vars
    /\ <>("mtld" \in returned)

\* A list of at least 50 tokens of which every second one completes a
\* factor: the MTLD returned is 2.
C22_Witness ==
    /\ "mtld" \in returned
    /\ Len(tokens) >= MinTokens
    /\ scan.i = Len(tokens)
    /\ 2 * scan.factors = Len(tokens)
    /\ RatEq(mtld, Rat(2, 1))

----------------------------------------------------------------------------
(* Properties of the orchestrators (SpecOrchestrator) *)

\* The identifiers of the loaded texts.
Loaded == DictKeys(all_texts)

InPlatoGroup(text_id) == text_id \in DictKeys(plato_texts)
InAristotleGroup(text_id) == text_id \in DictKeys(aristotle_texts)

\* The identifier contains none of 'Plato', 'Aristotle', 'Artistotle'.
NamesNoAuthor(text_id) ==
    /\ ~Contains(text_id, Plato)
    /\ ~Contains(text_id, Aristotle)
    /\ ~Contains(text_id, Artistotle)

\* The lemmatized tokens of the loaded texts other than the ones that name
\* no author.
TokensOfNamed ==
    UNION {ToSet(all_texts[k][2].tokens_lemmatized) :
               k \in {j \in 1..Len(all_texts) :
                          ~NamesNoAuthor(all_texts[j][1])}}

\* The orchestrator has ended, by returning or by an exception.
Ended == pc \in {"done", "raised"}

\* The mapping of the pairwise comparisons has an entry for the two texts.
Compared(id1, id2) ==
    \/ PairKey(id1, id2) \in DictKeys(pairwise_overlaps)
    \/ PairKey(id2, id1) \in DictKeys(pairwise_overlaps)

\* C21: every loaded text is in at most one author group, one whose
\* identifier contains 'Plato' in the Plato group even if it also contains
\* 'Aristotle'; a text whose identifier contains none of 'Plato',
\* 'Aristotle', 'Artistotle' is in no group and no token of it is counted in
\* the author comparison, and when the orchestrator has ended it has its
\* individual record and a pairwise comparison with every other text.
C21_UngroupedStillAnalysed ==
    \A text_id \in Loaded :
        /\ ~(InPlatoGroup(text_id) /\ InAristotleGroup(text_id))
        /\ Contains(text_id, Plato) =>
              InPlatoGroup(text_id) /\ ~InAristotleGroup(text_id)
        /\ NamesNoAuthor(text_id) =>
              /\ ~InPlatoGroup(text_id) /\ ~InAristotleGroup(text_id)
              /\ (ac # None /\ ~Raised(ac)) =>
                    ac.plato_vocabulary_size + ac.aristotle_unique
                        = Cardinality(TokensOfNamed)
              /\ Ended =>
                    /\ text_id \in DictKeys(results)
                    /\ \A other \in Loaded \ {text_id} :
                          Compared(text_id, other)

\* C23: the network returned by create_network_data has exactly one node
\* for each loaded text, and a node's author is 'Plato' only if the text is
\* in the Plato group of load_all_texts and 'Aristotle' only if it is in the
\* Aristotle group.
C23_NodeAuthorIsGroup ==
    (network # None /\ ~Raised(network)) =>
        /\ Len(network.nodes) = Len(all_texts)
        /\ \A text_id \in Loaded :
              Cardinality({k \in 1..Len(network.nodes) :
                              network.nodes[k].id = text_id}) = 1
        /\ \A k \in 1..Len(network.nodes) :
              /\ network.nodes[k].id \in Loaded
              /\ network.nodes[k].author = Plato =>
                    InPlatoGroup(network.nodes[k].id)
              /\ network.nodes[k].author = Aristotle =>
                    InAristotleGroup(network.nodes[k].id)

====
